---- MODULE Spec2Model ----
(***************************************************************************)
(* ossmap_tools: the graph builders (nx_graph.py) and the layout, metrics  *)
(* and label-export functions (layout.py), as operators over tables and    *)
(* graphs, with one specification per component that draws the inputs of   *)
(* a call from bounded sets and applies the function to them.              *)
(***************************************************************************)
EXTENDS Integers, Sequences, FiniteSets, TLC

VARIABLES
    nodelist,     \* the node table handed to a builder
    edgelist,     \* the edge table handed to a builder
    isDirected,   \* the builder's isDirected argument
    heap,         \* the graph objects alive, by reference
    args,         \* the arguments of a call on graphs (graphs by reference)
    call,         \* the function that was called ("none" before the call)
    result,       \* what the call returned or raised
    effects       \* the external calls and computation stages of the call, in order

vars == <<nodelist, edgelist, isDirected, heap, args, call, result, effects>>

(***************************************************************************)
(* Bounds of the model.                                                    *)
(***************************************************************************)
MaxNodeRows == 2
MaxEdgeRows == 2
MaxNodes == 3
MaxEdges == 2
NodeIds == {1, 2}
WeightValues == {1, 2}

(***************************************************************************)
(* Helpers.                                                                *)
(***************************************************************************)
SeqsUpTo(S, n) == UNION {[1..k -> S] : k \in 0..n}

Range(s) == {s[i] : i \in DOMAIN s}

NoAttrs == [k \in {} |-> 0]

\* dict.update: the keys of b overwrite those of a, the others stay
Update(a, b) == [k \in DOMAIN a \cup DOMAIN b |-> IF k \in DOMAIN b THEN b[k] ELSE a[k]]

Min(S) == CHOOSE x \in S : \A y \in S : x <= y
Max(S) == CHOOSE x \in S : \A y \in S : x >= y

Raise(exc, why) == [tag |-> "raise", exc |-> exc, why |-> why]
Return(v) == [tag |-> "return", value |-> v]
NotCalled == [tag |-> "none"]

(***************************************************************************)
(* networkx graphs: nx.Graph / nx.DiGraph, no parallel edges.  nodes is    *)
(* the insertion order of the node dict, nattr the node attribute dicts,   *)
(* eattr the edge attribute dicts keyed by the edge.                       *)
(***************************************************************************)
EmptyGraph(directed) ==
    [directed |-> directed, nodes |-> <<>>, nattr |-> NoAttrs, eattr |-> NoAttrs]

NodeSet(G) == Range(G.nodes)
EdgeSet(G) == DOMAIN G.eattr

\* an undirected graph holds one attribute dict for (u, v) and (v, u)
EdgeKey(directed, u, v) == IF directed \/ u <= v THEN <<u, v>> ELSE <<v, u>>

add_node(G, n, attrs) ==
    IF n \in NodeSet(G)
    THEN [G EXCEPT !.nattr = [m \in NodeSet(G) |->
                                 IF m = n THEN Update(G.nattr[n], attrs) ELSE G.nattr[m]]]
    ELSE [G EXCEPT !.nodes = Append(G.nodes, n),
                   !.nattr = [m \in NodeSet(G) \cup {n} |->
                                 IF m = n THEN attrs ELSE G.nattr[m]]]

add_edge(G, u, v, attrs) ==
    LET G1 == add_node(G, u, NoAttrs)
        G2 == add_node(G1, v, NoAttrs)
        e  == EdgeKey(G.directed, u, v)
    IN  [G2 EXCEPT !.eattr = [f \in EdgeSet(G) \cup {e} |->
                                 IF f = e
                                 THEN IF e \in EdgeSet(G) THEN Update(G.eattr[e], attrs) ELSE attrs
                                 ELSE G.eattr[f]]]

(***************************************************************************)
(* Tables.  A node table is its set of columns, the columns whose dtype is *)
(* int64 on entry, and its Id column; the cell of any other column in row  *)
(* i is the token i of that column.  An edge                               *)
(* table is its set of columns and its rows.                               *)
(***************************************************************************)
NodeColumns == {"Id", "Label", "Licenses", "Topic"}
EdgeColumns == {"Source", "Target", "weight"}

\* mutant: the Licenses column is not required
required_columns_nodelist_short == {"Id", "Label"}

required_columns_nodelist == {"Id", "Label", "Licenses"}
required_columns_edgelist == {"Source", "Target", "weight"}

Lower(column) ==
    CASE column = "Id" -> "id"
      [] column = "Label" -> "label"
      [] column = "Licenses" -> "licenses"
      [] column = "Topic" -> "topic"
      [] column = "Source" -> "source"
      [] column = "Target" -> "target"
      [] OTHER -> column

\* astype("int64") / astype(str) / astype("float64") of a cell
AsInt64(v) == [ty |-> "int64", v |-> v]
AsStr(v) == [ty |-> "str", v |-> v]
AsFloat64(v) == [ty |-> "float64", v |-> v]

\* a cell of the node table after the casts of build_graph: Id is cast to
\* int64, the columns select_dtypes(exclude="int64") finds are cast to str,
\* and a column whose dtype already is int64 is left as it is
NodeCell(nl, i, column) ==
    IF column = "Id" THEN AsInt64(nl.Id[i])
    ELSE IF column \in nl.int64_columns THEN [ty |-> "int64", v |-> i]
    ELSE AsStr(i)

EdgeCell(el, i, column) ==
    IF column = "weight" THEN AsFloat64(el.rows[i].weight)
    ELSE IF column = "Source" THEN AsInt64(el.rows[i].Source)
    ELSE AsInt64(el.rows[i].Target)

Weights(el) == [i \in DOMAIN el.rows |-> el.rows[i].weight]

(***************************************************************************)
(* build_graph                                                             *)
(***************************************************************************)
RECURSIVE AddNodeRows(_, _, _)
AddNodeRows(G, nl, i) ==
    IF i > Len(nl.Id) THEN G
    ELSE AddNodeRows(
            add_node(G, nl.Id[i],
                     [k \in {Lower(c) : c \in nl.columns} |->
                         NodeCell(nl, i, CHOOSE c \in nl.columns : Lower(c) = k)]),
            nl, i + 1)

RECURSIVE AddEdgeRows(_, _, _)
AddEdgeRows(G, el, i) ==
    IF i > Len(el.rows) THEN G
    ELSE AddEdgeRows(
            add_edge(G, el.rows[i].Source, el.rows[i].Target,
                     [k \in {Lower(c) : c \in el.columns} |->
                         EdgeCell(el, i, CHOOSE c \in el.columns : Lower(c) = k)]),
            el, i + 1)

\* mutant: the graph is built undirected whatever isDirected says
build_graph_undirected(el, nl, directed) ==
    IF ~(required_columns_nodelist \subseteq nl.columns)
    THEN Raise("ValueError", "nodelist columns")
    ELSE IF ~(required_columns_edgelist \subseteq el.columns)
    THEN Raise("ValueError", "edgelist columns")
    ELSE Return(AddEdgeRows(AddNodeRows(EmptyGraph(FALSE), nl, 1), el, 1))

build_graph(el, nl, directed) ==
    IF ~(required_columns_nodelist \subseteq nl.columns)
    THEN Raise("ValueError", "nodelist columns")
    ELSE IF ~(required_columns_edgelist \subseteq el.columns)
    THEN Raise("ValueError", "edgelist columns")
    ELSE Return(AddEdgeRows(AddNodeRows(EmptyGraph(directed), nl, 1), el, 1))

(***************************************************************************)
(* build_shuffled_weight_graph and build_random_weight_graph.  Both read   *)
(* the Topic column (astype and row["Topic"]) without requiring it.        *)
(***************************************************************************)
RECURSIVE AddLabelledNodeRows(_, _, _)
AddLabelledNodeRows(G, nl, i) ==
    IF i > Len(nl.Id) THEN G
    ELSE AddLabelledNodeRows(
            add_node(G, nl.Id[i],
                     [label |-> AsStr(i),
                      licenses |-> AsStr(i),
                      topic |-> AsStr(i)]),
            nl, i + 1)

\* the edges of the table, row by row, with the weights of the sequence ws
RECURSIVE AddWeightedEdgeRows(_, _, _, _)
AddWeightedEdgeRows(G, el, ws, i) ==
    IF i > Len(el.rows) THEN G
    ELSE AddWeightedEdgeRows(
            add_edge(G, el.rows[i].Source, el.rows[i].Target,
                     [weight |-> AsFloat64(ws[i])]),
            el, ws, i + 1)

\* mutant: the weights are drawn with replacement (random.choices)
ShufflesWithReplacement(n) == [1..n -> 1..n]

\* the outcomes of random.shuffle on a list of n items
Shuffles(n) == {p \in [1..n -> 1..n] : \A i, j \in 1..n : p[i] = p[j] => i = j}

build_shuffled_weight_graph(el, nl, directed, perm) ==
    IF ~(required_columns_nodelist \subseteq nl.columns)
    THEN Raise("ValueError", "nodelist columns")
    ELSE IF ~(required_columns_edgelist \subseteq el.columns)
    THEN Raise("ValueError", "edgelist columns")
    ELSE IF "Topic" \notin nl.columns
    THEN Raise("KeyError", "Topic")
    ELSE LET shuffled_weights == [i \in DOMAIN el.rows |-> Weights(el)[perm[i]]]
         IN  Return(AddWeightedEdgeRows(
                      AddLabelledNodeRows(EmptyGraph(directed), nl, 1),
                      el, shuffled_weights, 1))

\* the outcomes of one random.uniform(min_weight, max_weight) per row
Uniforms(el) ==
    IF Len(el.rows) = 0 THEN {<<>>}
    ELSE [DOMAIN el.rows -> Min(Range(Weights(el))) .. Max(Range(Weights(el)))]

build_random_weight_graph(el, nl, directed, random_weights) ==
    IF ~(required_columns_nodelist \subseteq nl.columns)
    THEN Raise("ValueError", "nodelist columns")
    ELSE IF ~(required_columns_edgelist \subseteq el.columns)
    THEN Raise("ValueError", "edgelist columns")
    ELSE IF "Topic" \notin nl.columns
    THEN Raise("KeyError", "Topic")
    ELSE Return(AddWeightedEdgeRows(
                  AddLabelledNodeRows(EmptyGraph(directed), nl, 1),
                  el, random_weights, 1))

(***************************************************************************)
(* The builders' specification: any tables within the bounds, each with at *)
(* most one column left out, then one call of one builder.  An integer     *)
(* column is drawn only together with a complete edge table.               *)
(***************************************************************************)
\* the columns of a node table whose dtype is int64 before any cast: none,
\* or one of the columns other than Id that the table has
Int64Columns(cs) == {{}} \cup {{c} : c \in cs \ {"Id"}}

NodeTables ==
    UNION {{[columns |-> cs, int64_columns |-> ints, Id |-> ids] :
                ints \in Int64Columns(cs),
                ids \in SeqsUpTo(NodeIds, MaxNodeRows)} :
           cs \in {NodeColumns} \cup {NodeColumns \ {c} : c \in NodeColumns}}

EdgeRows == [Source : NodeIds, Target : NodeIds, weight : WeightValues]

EdgeTables ==
    {[columns |-> cs, rows |-> rs] :
        cs \in {EdgeColumns} \cup {EdgeColumns \ {c} : c \in EdgeColumns},
        rs \in SeqsUpTo(EdgeRows, MaxEdgeRows)}

InitBuild ==
    /\ nodelist \in NodeTables
    /\ edgelist \in EdgeTables
    /\ nodelist.int64_columns = {} \/ edgelist.columns = EdgeColumns
    /\ isDirected \in BOOLEAN
    /\ heap = <<>>
    /\ args = NoAttrs
    /\ call = "none"
    /\ result = NotCalled
    /\ effects = <<>>

CallBuildGraph ==
    /\ call = "none"
    /\ call' = "build_graph"
    /\ result' = build_graph(edgelist, nodelist, isDirected)
    /\ UNCHANGED <<nodelist, edgelist, isDirected, heap, args, effects>>

CallBuildShuffledWeightGraph ==
    /\ call = "none"
    /\ \E perm \in Shuffles(Len(edgelist.rows)) :
          result' = build_shuffled_weight_graph(edgelist, nodelist, isDirected, perm)
    /\ call' = "build_shuffled_weight_graph"
    /\ UNCHANGED <<nodelist, edgelist, isDirected, heap, args, effects>>

CallBuildRandomWeightGraph ==
    /\ call = "none"
    /\ \E ws \in Uniforms(edgelist) :
          result' = build_random_weight_graph(edgelist, nodelist, isDirected, ws)
    /\ call' = "build_random_weight_graph"
    /\ UNCHANGED <<nodelist, edgelist, isDirected, heap, args, effects>>

NextBuild ==
    \/ CallBuildGraph
    \/ CallBuildShuffledWeightGraph
    \/ CallBuildRandomWeightGraph

SpecBuild == InitBuild /\ [][NextBuild]_vars

(***************************************************************************)
(* Graphs as arguments: at most MaxNodes nodes 1..n in insertion order,    *)
(* at most MaxEdges edges, node attribute dicts drawn from NA and edge     *)
(* attribute dicts from EA.                                                *)
(***************************************************************************)
EdgeKeys(directed, n) == {EdgeKey(directed, u, v) : u, v \in 1..n}

EdgeSetsUpTo(directed, n) ==
    {F \in SUBSET EdgeKeys(directed, n) : Cardinality(F) <= MaxEdges}

GraphOf(d, n, na, ea) ==
    [directed |-> d, nodes |-> [i \in 1..n |-> i], nattr |-> na, eattr |-> ea]

NoGraphTables ==
    /\ nodelist = [columns |-> {}, Id |-> <<>>]
    /\ edgelist = [columns |-> {}, rows |-> <<>>]
    /\ isDirected = TRUE

(***************************************************************************)
(* layout_network                                                          *)
(***************************************************************************)
\* mutant: no copy is made, G_layout is the caller's graph
copy_alias(h, ref) == [heap |-> h, ref |-> ref]

\* network.copy(): a new graph object with its own attribute dicts
copy(h, ref) == [heap |-> Append(h, h[ref]), ref |-> Len(h) + 1]

\* mutant: an unknown name falls back to the spring layout
layout_algorithm_default_spring(layout_name) ==
    IF layout_name = "fa2"
    THEN <<[algorithm |-> "forceatlas2_networkx_layout",
            iterations |-> 500,
            outboundAttractionDistribution |-> TRUE,
            adjustSizes |-> FALSE,
            multiThreaded |-> FALSE]>>
    ELSE IF layout_name = "graphviz"
    THEN <<[algorithm |-> "graphviz_layout"]>>
    ELSE <<[algorithm |-> "spring_layout"]>>

\* the layout algorithm the name selects, as the call made to it; none when
\* the name is not supported
\* mutant: the fa2 layout runs multi-threaded
layout_algorithm_multithreaded(layout_name) ==
    IF layout_name = "fa2"
    THEN <<[algorithm |-> "forceatlas2_networkx_layout", iterations |-> 500,
            outboundAttractionDistribution |-> TRUE, adjustSizes |-> FALSE,
            multiThreaded |-> TRUE]>>
    ELSE IF layout_name = "spring" THEN <<[algorithm |-> "spring_layout"]>>
    ELSE IF layout_name = "graphviz" THEN <<[algorithm |-> "graphviz_layout"]>>
    ELSE <<>>

layout_algorithm(layout_name) ==
    IF layout_name = "fa2"
    THEN <<[algorithm |-> "forceatlas2_networkx_layout",
            iterations |-> 500,
            outboundAttractionDistribution |-> TRUE,
            adjustSizes |-> FALSE,
            multiThreaded |-> FALSE]>>
    ELSE IF layout_name = "spring"
    THEN <<[algorithm |-> "spring_layout"]>>
    ELSE IF layout_name = "graphviz"
    THEN <<[algorithm |-> "graphviz_layout"]>>
    ELSE <<>>

\* mutant: the node's attribute dict is replaced by the coordinates
set_positions_replacing(G, layout_pos) ==
    [G EXCEPT !.nattr = [n \in NodeSet(G) |->
                            [x |-> layout_pos[n][1], y |-> layout_pos[n][2]]]]

\* G.nodes[node]["x"] = x; G.nodes[node]["y"] = y, for every node of layout_pos
set_positions(G, layout_pos) ==
    [G EXCEPT !.nattr = [n \in NodeSet(G) |->
                            IF n \in DOMAIN layout_pos
                            THEN Update(G.nattr[n],
                                        [x |-> layout_pos[n][1], y |-> layout_pos[n][2]])
                            ELSE G.nattr[n]]]

\* layout_pos: the positions the selected algorithm returns
layout_network(h, network, layout_name, layout_pos) ==
    LET c == copy(h, network)
        G_layout == c.ref
        algorithm == layout_algorithm(layout_name)
    IN  IF algorithm = <<>>
        THEN [heap |-> c.heap,
              result |-> Raise("ValueError", "Unsupported layout algorithm"),
              effects |-> <<>>]
        ELSE [heap |-> [c.heap EXCEPT ![G_layout] = set_positions(c.heap[G_layout], layout_pos)],
              result |-> Return(G_layout),
              effects |-> algorithm]

(***************************************************************************)
(* The layout specification: any graph within the bounds, laid out before  *)
(* or not, and any name, then one call of layout_network.                  *)
(***************************************************************************)
LayoutNames == {"fa2", "spring", "graphviz", "circular", "FA2"}
SupportedLayoutNames == {"fa2", "spring", "graphviz"}

\* the positions an algorithm may give a node
Positions == {<<0, 0>>, <<1, 2>>}

LayoutNodeAttrs == {[label |-> 1], [label |-> 1, x |-> 0, y |-> 0]}
LayoutEdgeAttrs == {[weight |-> 1]}

InitLayout ==
    /\ NoGraphTables
    /\ \E d \in BOOLEAN, n \in 0..MaxNodes :
          \E E \in EdgeSetsUpTo(d, n) :
              \E na \in [1..n -> LayoutNodeAttrs], ea \in [E -> LayoutEdgeAttrs] :
                  heap = <<GraphOf(d, n, na, ea)>>
    /\ \E name \in LayoutNames : args = [network |-> 1, layout_name |-> name]
    /\ call = "none"
    /\ result = NotCalled
    /\ effects = <<>>

CallLayoutNetwork ==
    /\ call = "none"
    /\ \E layout_pos \in [NodeSet(heap[args.network]) -> Positions] :
          LET out == layout_network(heap, args.network, args.layout_name, layout_pos)
          IN  /\ heap' = out.heap
              /\ result' = out.result
              /\ effects' = out.effects
    /\ call' = "layout_network"
    /\ UNCHANGED <<nodelist, edgelist, isDirected, args>>

NextLayout == CallLayoutNetwork

SpecLayout == InitLayout /\ [][NextLayout]_vars

(***************************************************************************)
(* layout_metrics.  A weight is a Python number ("float") or a numpy       *)
(* scalar ("numpy.float64"): which one a built graph carries depends on    *)
(* the builder and on the pandas version (row.to_dict(), random.uniform on *)
(* numpy bounds).  Percentages are exact fractions.                        *)
(***************************************************************************)
RECURSIVE GCD(_, _)
GCD(a, b) == IF b = 0 THEN a ELSE GCD(b, a % b)

\* the number n / d, d > 0
Frac(n, d) ==
    LET g == GCD(IF n < 0 THEN -n ELSE n, d)
    IN  [num |-> n \div g, den |-> d \div g]

NaN == [num |-> 0, den |-> 0]
Infinity == [num |-> 1, den |-> 0]

\* (n / d) * 100 on Python numbers raises ZeroDivisionError when d = 0; on
\* numpy scalars it gives nan or inf with a warning
PercentOf(ty, n, d) ==
    IF d # 0 THEN Return(Frac(100 * n, d))
    ELSE IF ty = "numpy.float64" THEN Return(IF n = 0 THEN NaN ELSE Infinity)
    ELSE Raise("ZeroDivisionError", "division by zero")

\* nx.get_edge_attributes(G, "weight")
get_edge_attributes(G) ==
    [e \in {f \in EdgeSet(G) : "weight" \in DOMAIN G.eattr[f]} |-> G.eattr[e].weight]

Adjacent(G, u, v) == <<u, v>> \in EdgeSet(G) \/ <<v, u>> \in EdgeSet(G)

\* the nodes reachable from S, edge directions ignored
RECURSIVE Reach(_, _)
Reach(G, S) ==
    LET T == S \cup {v \in NodeSet(G) : \E u \in S : Adjacent(G, u, v)}
    IN  IF T = S THEN S ELSE Reach(G, T)

\* nx.connected_components / nx.weakly_connected_components: the components
\* in the order of their first node
RECURSIVE ComponentsFrom(_, _, _)
ComponentsFrom(G, i, seen) ==
    IF i > Len(G.nodes) THEN <<>>
    ELSE IF G.nodes[i] \in seen THEN ComponentsFrom(G, i + 1, seen)
    ELSE LET c == Reach(G, {G.nodes[i]})
         IN  <<c>> \o ComponentsFrom(G, i + 1, seen \cup c)

connected_components(G) == ComponentsFrom(G, 1, {})

\* mutant: the smallest component is taken (min for max)
smallest_component_nodes(G) ==
    LET cs == connected_components(G)
        i  == CHOOSE k \in DOMAIN cs :
                 \A j \in DOMAIN cs :
                    /\ Cardinality(cs[j]) >= Cardinality(cs[k])
                    /\ j < k => Cardinality(cs[j]) > Cardinality(cs[k])
    IN  cs[i]

\* max(components, key=len): the first of the largest components
gcc_nodes(G) ==
    LET cs == connected_components(G)
        i  == CHOOSE k \in DOMAIN cs :
                 \A j \in DOMAIN cs :
                    /\ Cardinality(cs[j]) <= Cardinality(cs[k])
                    /\ j < k => Cardinality(cs[j]) < Cardinality(cs[k])
    IN  cs[i]

\* G.subgraph(S)
subgraph(G, S) ==
    [directed |-> G.directed,
     nodes |-> SelectSeq(G.nodes, LAMBDA n : n \in S),
     nattr |-> [n \in NodeSet(G) \cap S |-> G.nattr[n]],
     eattr |-> [e \in {f \in EdgeSet(G) : f[1] \in S /\ f[2] \in S} |-> G.eattr[e]]]

RECURSIVE SumOver(_, _)
SumOver(f, S) ==
    IF S = {} THEN 0
    ELSE LET e == CHOOSE x \in S : TRUE IN f[e].v + SumOver(f, S \ {e})

\* sum(w for u, v, w in G.edges(data="weight")): an edge without weight
\* gives None, which sum cannot add
total_weight(G) ==
    IF \E e \in EdgeSet(G) : "weight" \notin DOMAIN G.eattr[e]
    THEN Raise("TypeError", "unsupported operand type(s) for +: NoneType")
    ELSE Return([ty |-> IF \E e \in EdgeSet(G) : G.eattr[e].weight.ty = "numpy.float64"
                        THEN "numpy.float64" ELSE "float",
                 v |-> SumOver([e \in EdgeSet(G) |-> G.eattr[e].weight], EdgeSet(G))])

MetricNames ==
    <<"Original Network GCC Node",
      "Backbone Network Node",
      "Original Network GCC Edges Removed",
      "Backbone Network Edges Removed",
      "Original Network GCC Edge Weight Removed",
      "Backbone Network Edge Weight Removed">>

\* mutant: the weight check asks for a weight in neither network (and for or)
lacks_weights_both(original_network, backbone_network) ==
    /\ get_edge_attributes(original_network) = NoAttrs
    /\ get_edge_attributes(backbone_network) = NoAttrs

\* not get_edge_attributes(original) or not get_edge_attributes(backbone)
lacks_weights(original_network, backbone_network) ==
    \/ get_edge_attributes(original_network) = NoAttrs
    \/ get_edge_attributes(backbone_network) = NoAttrs

Numpy(a, b) == IF "numpy.float64" \in {a.ty, b.ty} THEN "numpy.float64" ELSE "float"

\* the call's outcome with the stages it went through
Outcome(res, stages) == [result |-> res, effects |-> stages]

layout_metrics(original_network, backbone_network) ==
    IF lacks_weights(original_network, backbone_network)
    THEN Outcome(Raise("ValueError", "All edges in the network must have a 'weight' attribute."),
                 <<>>)
    ELSE
    LET original_network_gcc == subgraph(original_network, gcc_nodes(original_network))
        gcc_node == PercentOf("float", Len(original_network_gcc.nodes),
                              Len(original_network.nodes))
        backbone_node == PercentOf("float", Len(backbone_network.nodes),
                                   Len(original_network.nodes))
        edges_count == Cardinality(EdgeSet(original_network))
        gcc_edges == PercentOf("float",
                               edges_count - Cardinality(EdgeSet(original_network_gcc)),
                               edges_count)
        backbone_edges == PercentOf("float",
                                    edges_count - Cardinality(EdgeSet(backbone_network)),
                                    edges_count)
        w_original == total_weight(original_network)
        w_gcc == total_weight(original_network_gcc)
        w_backbone == total_weight(backbone_network)
    IN  IF gcc_node.tag = "raise" THEN Outcome(gcc_node, <<"components">>)
        ELSE IF gcc_edges.tag = "raise"
        THEN Outcome(gcc_edges, <<"components", "node percentages">>)
        ELSE IF w_original.tag = "raise"
        THEN Outcome(w_original, <<"components", "node percentages", "edge percentages">>)
        ELSE IF w_backbone.tag = "raise"
        THEN Outcome(w_backbone, <<"components", "node percentages", "edge percentages">>)
        ELSE
        LET gcc_weight == PercentOf(w_original.value.ty,
                                    w_original.value.v - w_gcc.value.v,
                                    w_original.value.v)
            backbone_weight == PercentOf(Numpy(w_original.value, w_backbone.value),
                                         w_original.value.v - w_backbone.value.v,
                                         w_original.value.v)
        IN  IF gcc_weight.tag = "raise"
            THEN Outcome(gcc_weight, <<"components", "node percentages", "edge percentages",
                                       "weight sums">>)
            ELSE IF backbone_weight.tag = "raise"
            THEN Outcome(backbone_weight, <<"components", "node percentages",
                                            "edge percentages", "weight sums">>)
            ELSE Outcome(Return([Metric |-> MetricNames,
                                 Percentage |-> <<gcc_node.value, backbone_node.value,
                                                  gcc_edges.value, backbone_edges.value,
                                                  gcc_weight.value, backbone_weight.value>>]),
                         <<"components", "node percentages", "edge percentages",
                           "weight sums", "weight percentages">>)

(***************************************************************************)
(* The metrics specification: any original network within the bounds, its  *)
(* weights Python numbers or numpy scalars, each edge weighted or not,     *)
(* then one call of layout_metrics with any backbone that keeps some of    *)
(* the edges and either every node or the nodes that still have an edge.   *)
(***************************************************************************)
MetricWeights == {0, 1, 2}
NumberTypes == {"float", "numpy.float64"}

MetricEdgeAttrs(ty) == {[weight |-> [ty |-> ty, v |-> w]] : w \in MetricWeights} \cup {NoAttrs}

Backbones(O) ==
    {LET S == IF all THEN NodeSet(O) ELSE {f[1] : f \in F} \cup {f[2] : f \in F}
     IN  [directed |-> O.directed,
          nodes |-> SelectSeq(O.nodes, LAMBDA n : n \in S),
          nattr |-> [n \in S |-> O.nattr[n]],
          eattr |-> [e \in F |-> O.eattr[e]]] :
        F \in SUBSET EdgeSet(O), all \in BOOLEAN}

InitMetrics ==
    /\ NoGraphTables
    /\ \E ty \in NumberTypes, d \in BOOLEAN, n \in 0..MaxNodes :
          \E E \in EdgeSetsUpTo(d, n) :
              \E na \in [1..n -> {NoAttrs}], ea \in [E -> MetricEdgeAttrs(ty)] :
                  heap = <<GraphOf(d, n, na, ea)>>
    /\ args = [original_network |-> 1]
    /\ call = "none"
    /\ result = NotCalled
    /\ effects = <<>>

CallLayoutMetrics ==
    /\ call = "none"
    /\ \E B \in Backbones(heap[args.original_network]) :
          LET out == layout_metrics(heap[args.original_network], B)
          IN  /\ heap' = Append(heap, B)
              /\ args' = [original_network |-> args.original_network,
                          backbone_network |-> Len(heap) + 1]
              /\ result' = out.result
              /\ effects' = out.effects
    /\ call' = "layout_metrics"
    /\ UNCHANGED <<nodelist, edgelist, isDirected>>

NextMetrics == CallLayoutMetrics

SpecMetrics == InitMetrics /\ [][NextMetrics]_vars

(***************************************************************************)
(* get_webweb.  The label-keyed graph is handed to Web and saved; both are *)
(* recorded as effects.                                                    *)
(***************************************************************************)
Position(G, n) == CHOOSE i \in DOMAIN G.nodes : G.nodes[i] = n

\* network.edges reports an edge at the node it is first met from: its
\* source, or for an undirected graph its end that comes first
FirstEnd(G, e) ==
    IF G.directed \/ Position(G, e[1]) <= Position(G, e[2]) THEN e[1] ELSE e[2]
OtherEnd(G, e) == IF FirstEnd(G, e) = e[1] THEN e[2] ELSE e[1]

\* the orders network.edges(data=True) may report the edges in: node by
\* node, the edges of a node in the order they were added
EdgeOrders(G) ==
    {es \in [1..Cardinality(EdgeSet(G)) -> EdgeSet(G)] :
        /\ \A i, j \in DOMAIN es : es[i] = es[j] => i = j
        /\ \A i, j \in DOMAIN es :
              i < j => Position(G, FirstEnd(G, es[i])) <= Position(G, FirstEnd(G, es[j]))}

\* mutant: the error names the node the loop would end on
LastWhenUnlabelled(G) ==
    IF \A n \in NodeSet(G) : "label" \in DOMAIN G.nattr[n] THEN 0
    ELSE Len(G.nodes)

\* the first node without a label, in node order; 0 when every node has one
FirstUnlabelled(G) ==
    IF \A n \in NodeSet(G) : "label" \in DOMAIN G.nattr[n] THEN 0
    ELSE Min({i \in DOMAIN G.nodes : "label" \notin DOMAIN G.nattr[G.nodes[i]]})

RECURSIVE AddLabelNodes(_, _, _)
AddLabelNodes(label_graph, network, i) ==
    IF i > Len(network.nodes) THEN label_graph
    ELSE AddLabelNodes(
            add_node(label_graph, network.nattr[network.nodes[i]].label,
                     network.nattr[network.nodes[i]]),
            network, i + 1)

RECURSIVE AddLabelEdges(_, _, _, _)
AddLabelEdges(label_graph, network, es, i) ==
    IF i > Len(es) THEN label_graph
    ELSE AddLabelEdges(
            add_edge(label_graph,
                     network.nattr[FirstEnd(network, es[i])].label,
                     network.nattr[OtherEnd(network, es[i])].label,
                     network.eattr[es[i]]),
            network, es, i + 1)

\* label_graph = nx.Graph()
new_label_graph(network) == EmptyGraph(FALSE)

\* es: the order in which network.edges(data=True) reports the edges
get_webweb(network, output_dir, file_name, es) ==
    IF FirstUnlabelled(network) # 0
    THEN Outcome(Raise("ValueError",
                       <<"does not have a 'label' attribute",
                         network.nodes[FirstUnlabelled(network)]>>),
                 <<>>)
    ELSE LET label_graph ==
                AddLabelEdges(AddLabelNodes(new_label_graph(network), network, 1),
                              network, es, 1)
         IN  Outcome(Return("None"),
                     <<[op |-> "Web", nx_G |-> label_graph],
                       [op |-> "save", output_dir |-> output_dir, file_name |-> file_name]>>)

(***************************************************************************)
(* The export specification: any graph within the bounds whose nodes carry *)
(* their own label, the label of node 1 or none, then one call of          *)
(* get_webweb.                                                             *)
(***************************************************************************)
WebNodeAttrs(i) ==
    {[label |-> i, licenses |-> i], [label |-> 1, licenses |-> i], [licenses |-> i]}
WebEdgeAttrs == {[weight |-> 1], [weight |-> 2]}

InitWebweb ==
    /\ NoGraphTables
    /\ \E d \in BOOLEAN, n \in 0..MaxNodes :
          \E E \in EdgeSetsUpTo(d, n) :
              \E na \in [1..n -> UNION {WebNodeAttrs(i) : i \in 1..n}],
                 ea \in [E -> WebEdgeAttrs] :
                  /\ \A i \in 1..n : na[i] \in WebNodeAttrs(i)
                  /\ heap = <<GraphOf(d, n, na, ea)>>
    /\ args = [network |-> 1, output_dir |-> "dir", file_name |-> "file"]
    /\ call = "none"
    /\ result = NotCalled
    /\ effects = <<>>

CallGetWebweb ==
    /\ call = "none"
    /\ \E es \in EdgeOrders(heap[args.network]) :
          LET out == get_webweb(heap[args.network], args.output_dir, args.file_name, es)
          IN  /\ result' = out.result
              /\ effects' = out.effects
    /\ call' = "get_webweb"
    /\ UNCHANGED <<nodelist, edgelist, isDirected, heap, args>>

NextWebweb == CallGetWebweb

SpecWebweb == InitWebweb /\ [][NextWebweb]_vars

(***************************************************************************)
(* Graph builder claims.                                                   *)
(***************************************************************************)
HasRequiredColumns ==
    /\ required_columns_nodelist \subseteq nodelist.columns
    /\ required_columns_edgelist \subseteq edgelist.columns

\* Ids unique, every Source and Target an Id of the node table
ValidTables ==
    /\ HasRequiredColumns
    /\ \A i, j \in DOMAIN nodelist.Id : nodelist.Id[i] = nodelist.Id[j] => i = j
    /\ \A i \in DOMAIN edgelist.rows :
          /\ edgelist.rows[i].Source \in Range(nodelist.Id)
          /\ edgelist.rows[i].Target \in Range(nodelist.Id)

\* no two edge rows join the same pair of nodes (in the same direction, when
\* the graph is directed)
DistinctEdgeRows ==
    \A i, j \in DOMAIN edgelist.rows :
        i # j =>
            /\ ~(/\ edgelist.rows[i].Source = edgelist.rows[j].Source
                 /\ edgelist.rows[i].Target = edgelist.rows[j].Target)
            /\ isDirected \/
               ~(/\ edgelist.rows[i].Source = edgelist.rows[j].Target
                 /\ edgelist.rows[i].Target = edgelist.rows[j].Source)

CountsMatchTables ==
    /\ result.tag = "return"
    /\ Cardinality(NodeSet(result.value)) = Len(nodelist.Id)
    /\ Cardinality(EdgeSet(result.value)) = Len(edgelist.rows)

\* C1 as stated: for valid tables and either directedness, build_graph
\* returns a graph with one node per node row and one edge per edge row.
C1_CountsForValidTables ==
    (call = "build_graph" /\ ValidTables) => CountsMatchTables

\* C1 amended: for valid tables whose edge rows join pairwise distinct node
\* pairs, build_graph returns a graph with one node per node row and one
\* edge per edge row.
C1_CountsForDistinctEdgeRows ==
    (call = "build_graph" /\ ValidTables /\ DistinctEdgeRows) => CountsMatchTables

C1_Witness ==
    /\ call = "build_graph"
    /\ ValidTables
    /\ DistinctEdgeRows
    /\ Len(nodelist.Id) = 2
    /\ Len(edgelist.rows) = 2
    /\ result.tag = "return"

\* C8: for tables with the required columns (Topic or not) and either
\* directedness, the shuffled-weight and the random-weight builder return a
\* graph with the node set and the edge set of build_graph's graph.
C8_SameTopologyAsBuildGraph ==
    (call \in {"build_shuffled_weight_graph", "build_random_weight_graph"}
        /\ HasRequiredColumns) =>
    /\ result.tag = "return"
    /\ NodeSet(result.value) = NodeSet(build_graph(edgelist, nodelist, isDirected).value)
    /\ EdgeSet(result.value) = EdgeSet(build_graph(edgelist, nodelist, isDirected).value)

\* the multiset of the items of a sequence, and of the edge weights of a graph
BagOfSeq(s) == [x \in Range(s) |-> Cardinality({i \in DOMAIN s : s[i] = x})]
BagOfEdgeWeights(G) ==
    [w \in {G.eattr[e].weight.v : e \in EdgeSet(G)} |->
        Cardinality({e \in EdgeSet(G) : G.eattr[e].weight.v = w})]

\* C9 as stated: whatever the edge table and the shuffle, the multiset of
\* edge weights of the shuffled-weight graph is that of the weight column.
C9_WeightMultisetKept ==
    (call = "build_shuffled_weight_graph" /\ result.tag = "return") =>
        BagOfEdgeWeights(result.value) = BagOfSeq(Weights(edgelist))

\* C9 amended: whatever the shuffle, when the edge rows join pairwise
\* distinct node pairs, the multiset of edge weights of the shuffled-weight
\* graph is that of the weight column.
C9_WeightMultisetKeptForDistinctEdgeRows ==
    (call = "build_shuffled_weight_graph" /\ result.tag = "return" /\ DistinctEdgeRows) =>
        BagOfEdgeWeights(result.value) = BagOfSeq(Weights(edgelist))

C9_Witness ==
    /\ call = "build_shuffled_weight_graph"
    /\ result.tag = "return"
    /\ DistinctEdgeRows
    /\ Len(edgelist.rows) = 2
    /\ edgelist.rows[1].weight # edgelist.rows[2].weight
    /\ result.value.eattr[EdgeKey(isDirected, edgelist.rows[1].Source,
                                  edgelist.rows[1].Target)].weight.v
          = edgelist.rows[2].weight

(***************************************************************************)
(* Layout engine claims.                                                   *)
(***************************************************************************)
\* C2: layout_network leaves every graph that existed before the call as it
\* was, whatever the name (node set, edge set, every attribute dict), and a
\* graph it returns is a new object, not the caller's.
C2_InputNeverMutated ==
    [][call' = "layout_network" =>
         /\ \A r \in DOMAIN heap : r \in DOMAIN heap' /\ heap'[r] = heap[r]
         /\ result'.tag = "return" => result'.value \notin DOMAIN heap]_vars

C2_Witness ==
    /\ call = "layout_network"
    /\ result.tag = "return"
    /\ NodeSet(heap[args.network]) # {}
    /\ \A n \in NodeSet(heap[args.network]) :
          /\ "x" \notin DOMAIN heap[args.network].nattr[n]
          /\ "x" \in DOMAIN heap[result.value].nattr[n]

Restrict(f, S) == [k \in DOMAIN f \cap S |-> f[k]]

SameNodesAndEdges(G, H) ==
    /\ H.directed = G.directed
    /\ H.nodes = G.nodes
    /\ H.eattr = G.eattr

HasCoordinates(G) ==
    \A n \in NodeSet(G) : {"x", "y"} \subseteq DOMAIN G.nattr[n]

\* C3 as stated: for a supported name the returned graph has the nodes and
\* edges of the input, every attribute of the input unchanged, and x and y
\* on every node.
C3_LayoutKeepsEveryAttribute ==
    (call = "layout_network" /\ args.layout_name \in SupportedLayoutNames) =>
        /\ result.tag = "return"
        /\ SameNodesAndEdges(heap[args.network], heap[result.value])
        /\ HasCoordinates(heap[result.value])
        /\ \A n \in NodeSet(heap[args.network]) :
              Restrict(heap[result.value].nattr[n], DOMAIN heap[args.network].nattr[n])
                 = heap[args.network].nattr[n]

\* C3 amended: for a supported name the returned graph has the nodes and
\* edges of the input, every attribute of the input other than x and y
\* unchanged, no attribute besides x and y added, and x and y on every node.
C3_LayoutKeepsOtherAttributes ==
    (call = "layout_network" /\ args.layout_name \in SupportedLayoutNames) =>
        /\ result.tag = "return"
        /\ SameNodesAndEdges(heap[args.network], heap[result.value])
        /\ HasCoordinates(heap[result.value])
        /\ \A n \in NodeSet(heap[args.network]) :
              Restrict(heap[result.value].nattr[n],
                       DOMAIN heap[result.value].nattr[n] \ {"x", "y"})
                 = Restrict(heap[args.network].nattr[n],
                            DOMAIN heap[args.network].nattr[n] \ {"x", "y"})

C3_Witness ==
    /\ call = "layout_network"
    /\ args.layout_name = "graphviz"
    /\ result.tag = "return"
    /\ Len(heap[args.network].nodes) = MaxNodes
    /\ EdgeSet(heap[args.network]) # {}
    /\ \E n \in NodeSet(heap[args.network]) :
          /\ "x" \in DOMAIN heap[args.network].nattr[n]
          /\ heap[result.value].nattr[n].x # heap[args.network].nattr[n].x

\* C4: for a name that is not supported, layout_network raises the
\* ValueError with no layout algorithm called and no graph returned, and
\* every graph there is after the call is as some graph was before it (none
\* has been given a coordinate).
C4_UnsupportedNameRaisesFirst ==
    [][(call' = "layout_network" /\ args.layout_name \notin SupportedLayoutNames) =>
         /\ result' = Raise("ValueError", "Unsupported layout algorithm")
         /\ effects' = <<>>
         /\ \A r \in DOMAIN heap' : \E q \in DOMAIN heap : heap'[r] = heap[q]]_vars

C4_Witness ==
    /\ call = "layout_network"
    /\ args.layout_name \notin SupportedLayoutNames
    /\ result.tag = "raise"
    /\ NodeSet(heap[args.network]) # {}
    /\ \A n \in NodeSet(heap[args.network]) : "x" \notin DOMAIN heap[args.network].nattr[n]

(***************************************************************************)
(* Backbone metrics claims.                                                *)
(***************************************************************************)
Original == heap[args.original_network]
Backbone == heap[args.backbone_network]

\* no edge of G leaves the node set S
Closed(G, S) == \A e \in EdgeSet(G) : e[1] \in S <=> e[2] \in S

\* S is a (weakly) connected component of G: closed, and no part of it is
IsComponent(G, S) ==
    /\ S # {}
    /\ S \subseteq NodeSet(G)
    /\ Closed(G, S)
    /\ \A T \in SUBSET S : (T # {} /\ T # S) => ~Closed(G, T)

IsGiantComponent(G, S) ==
    /\ IsComponent(G, S)
    /\ \A T \in SUBSET NodeSet(G) : IsComponent(G, T) => Cardinality(T) <= Cardinality(S)

EdgesWithin(G, S) == {e \in EdgeSet(G) : e[1] \in S /\ e[2] \in S}

AllWeighted(G) == \A e \in EdgeSet(G) : "weight" \in DOMAIN G.eattr[e]

RECURSIVE WeightOf(_, _)
WeightOf(G, E) ==
    IF E = {} THEN 0
    ELSE LET e == CHOOSE x \in E : TRUE
         IN  G.eattr[e].weight.v + WeightOf(G, E \ {e})

\* p is the percentage 100 * n / d
IsPercentage(p, n, d) == p.den # 0 /\ p.num * d = 100 * n * p.den

Hundred == [num |-> 100, den |-> 1]
Zero == [num |-> 0, den |-> 1]

\* C5: a table layout_metrics returns for an original network of nonzero
\* total weight has the six metric names in the fixed order and, for a giant
\* (weakly) connected component C of the original O and the backbone B, the
\* values 100|V(C)|/|V(O)|, 100|V(B)|/|V(O)|, 100(|E(O)|-|E(C)|)/|E(O)|,
\* 100(|E(O)|-|E(B)|)/|E(O)|, 100(W(O)-W(C))/W(O), 100(W(O)-W(B))/W(O); a
\* connected network that is its own backbone gives 100, 100, 0, 0, 0, 0.
C5_MetricsTable ==
    (call = "layout_metrics" /\ result.tag = "return"
        /\ WeightOf(Original, EdgeSet(Original)) # 0) =>
    LET O == Original
        B == Backbone
        p == result.value.Percentage
        nO == Cardinality(NodeSet(O))
        eO == Cardinality(EdgeSet(O))
        wO == WeightOf(O, EdgeSet(O))
    IN  /\ result.value.Metric =
              <<"Original Network GCC Node", "Backbone Network Node",
                "Original Network GCC Edges Removed", "Backbone Network Edges Removed",
                "Original Network GCC Edge Weight Removed",
                "Backbone Network Edge Weight Removed">>
        /\ Len(p) = 6
        /\ \E C \in SUBSET NodeSet(O) :
              /\ IsGiantComponent(O, C)
              /\ IsPercentage(p[1], Cardinality(C), nO)
              /\ IsPercentage(p[3], eO - Cardinality(EdgesWithin(O, C)), eO)
              /\ IsPercentage(p[5], wO - WeightOf(O, EdgesWithin(O, C)), wO)
        /\ IsPercentage(p[2], Cardinality(NodeSet(B)), nO)
        /\ IsPercentage(p[4], eO - Cardinality(EdgeSet(B)), eO)
        /\ IsPercentage(p[6], wO - WeightOf(B, EdgeSet(B)), wO)
        /\ (B = O /\ IsComponent(O, NodeSet(O))) =>
              p = <<Hundred, Hundred, Zero, Zero, Zero, Zero>>

\* a network whose giant component leaves a node out, with a backbone that
\* drops one of its two edges
C5_Witness ==
    /\ call = "layout_metrics"
    /\ result.tag = "return"
    /\ WeightOf(Original, EdgeSet(Original)) # 0
    /\ Cardinality(NodeSet(Original)) = 3
    /\ result.value.Percentage[1] = [num |-> 200, den |-> 3]
    /\ result.value.Percentage[4] = [num |-> 50, den |-> 1]
    /\ result.value.Percentage[6] \notin {Zero, Hundred, [num |-> 50, den |-> 1]}

\* C6: for an original network with no edge, or whose edges weigh zero in
\* total, layout_metrics raises the division-by-zero error and returns no
\* table; and no table it returns has NaN or infinity in rows 3 to 6.
C6_DegenerateNetworkRaisesDivisionByZero ==
    call = "layout_metrics" =>
        /\ (\/ EdgeSet(Original) = {}
            \/ AllWeighted(Original) /\ WeightOf(Original, EdgeSet(Original)) = 0) =>
              result.tag = "raise" /\ result.exc = "ZeroDivisionError"
        /\ result.tag = "return" =>
              \A i \in 3..6 : result.value.Percentage[i].den # 0

\* C7: when no edge of the original or no edge of the backbone carries a
\* weight, layout_metrics raises the missing-weight ValueError before any
\* stage of the computation, and returns no table.
C7_NoWeightRaisesFirst ==
    (call = "layout_metrics"
        /\ (\/ \A e \in EdgeSet(Original) : "weight" \notin DOMAIN Original.eattr[e]
            \/ \A e \in EdgeSet(Backbone) : "weight" \notin DOMAIN Backbone.eattr[e])) =>
    /\ result = Raise("ValueError", "All edges in the network must have a 'weight' attribute.")
    /\ effects = <<>>

\* the original has a weighted edge, the backbone has an edge and no weight
C7_Witness ==
    /\ call = "layout_metrics"
    /\ \E e \in EdgeSet(Original) : "weight" \in DOMAIN Original.eattr[e]
    /\ EdgeSet(Backbone) # {}
    /\ \A e \in EdgeSet(Backbone) : "weight" \notin DOMAIN Backbone.eattr[e]
    /\ result.tag = "raise"
    /\ result.exc = "ValueError"

(***************************************************************************)
(* Label export claims.                                                    *)
(***************************************************************************)
Network == heap[args.network]

AllLabelled(G) == \A n \in NodeSet(G) : "label" \in DOMAIN G.nattr[n]

DistinctLabels(G) ==
    \A m, n \in NodeSet(G) : G.nattr[m].label = G.nattr[n].label => m = n

\* C10: for a graph whose nodes all carry a label, the labels pairwise
\* distinct, the label-keyed graph get_webweb builds has one node per input
\* node, keyed by its label with all of its attributes, and one edge per
\* input edge, between the labels of its ends with all of its attributes.
C10_LabelGraphEquivalent ==
    (call = "get_webweb" /\ AllLabelled(Network) /\ DistinctLabels(Network)) =>
        /\ result.tag = "return"
        /\ Len(effects) >= 1
        /\ effects[1].op = "Web"
        /\ LET L == effects[1].nx_G
               G == Network
           IN  /\ NodeSet(L) = {G.nattr[n].label : n \in NodeSet(G)}
               /\ Len(L.nodes) = Len(G.nodes)
               /\ \A n \in NodeSet(G) : L.nattr[G.nattr[n].label] = G.nattr[n]
               /\ Cardinality(EdgeSet(L)) = Cardinality(EdgeSet(G))
               /\ \A e \in EdgeSet(G) :
                     \E f \in EdgeSet(L) :
                        /\ {f[1], f[2]} = {G.nattr[e[1]].label, G.nattr[e[2]].label}
                        /\ L.eattr[f] = G.eattr[e]

\* C11: when a node of the input lacks a label, get_webweb raises the
\* ValueError that names a node without label, neither builds the Web nor
\* saves anything, and leaves every graph as it was.
C11_MissingLabelRaisesBeforeSave ==
    [][(call' = "get_webweb" /\ ~AllLabelled(heap[args.network])) =>
         /\ result'.tag = "raise"
         /\ result'.exc = "ValueError"
         /\ result'.why[1] = "does not have a 'label' attribute"
         /\ result'.why[2] \in {n \in NodeSet(heap[args.network]) :
                                  "label" \notin DOMAIN heap[args.network].nattr[n]}
         /\ \A i \in DOMAIN effects' : effects'[i].op # "save"
         /\ heap' = heap]_vars

\* a labelled node comes first, an unlabelled one later, and there are edges
C11_Witness ==
    /\ call = "get_webweb"
    /\ result.tag = "raise"
    /\ Len(Network.nodes) >= 2
    /\ "label" \in DOMAIN Network.nattr[Network.nodes[1]]
    /\ "label" \in DOMAIN Network.nattr[Network.nodes[Len(Network.nodes)]]
    /\ ~AllLabelled(Network)
    /\ EdgeSet(Network) # {}

\* C12: when a required column is missing from the node table or from the
\* edge table, build_graph raises the ValueError of the column check and
\* returns no graph: nothing has been built.
C12_MissingColumnRaises ==
    (/\ call = "build_graph"
     /\ \/ ~({"Id", "Label", "Licenses"} \subseteq nodelist.columns)
        \/ ~({"Source", "Target", "weight"} \subseteq edgelist.columns))
    => /\ result.tag = "raise"
       /\ result.exc = "ValueError"
       /\ result.why \in {"nodelist columns", "edgelist columns"}
       /\ (result.why = "nodelist columns") =
             ~({"Id", "Label", "Licenses"} \subseteq nodelist.columns)
       /\ heap = <<>>

\* a table with rows and without Licenses, next to a complete edge table
C12_Witness ==
    /\ call = "build_graph"
    /\ "Licenses" \notin nodelist.columns
    /\ edgelist.columns = EdgeColumns
    /\ Len(nodelist.Id) > 0
    /\ Len(edgelist.rows) > 0
    /\ result.tag = "raise"

\* C14: in every graph build_graph returns, each node attribute other than
\* the identifier is a string and the identifier is a 64-bit integer.
C14_NodeAttributesAreStrings ==
    (call = "build_graph" /\ result.tag = "return") =>
        \A n \in NodeSet(result.value) :
            \A k \in DOMAIN result.value.nattr[n] :
                result.value.nattr[n][k].ty = IF k = "id" THEN "int64" ELSE "str"

\* C13: when some edge of the original or of the backbone network has no
\* weight, layout_metrics raises the missing-weight ValueError.
C13_AnyMissingWeightRaisesValueError ==
    (/\ call = "layout_metrics"
     /\ \/ \E e \in EdgeSet(Original) : "weight" \notin DOMAIN Original.eattr[e]
        \/ \E e \in EdgeSet(Backbone) : "weight" \notin DOMAIN Backbone.eattr[e])
    => result = Raise("ValueError",
                      "All edges in the network must have a 'weight' attribute.")

\* the calls of the force-directed layout that a call of layout_network made
Fa2Calls ==
    {effects[i] : i \in {j \in DOMAIN effects :
                            effects[j].algorithm = "forceatlas2_networkx_layout"}}

\* C15: every fa2 layout run has 500 iterations and has attraction
\* distribution, adjust-sizes and multi-threading all switched off.
C15_Fa2OptionsAllDisabled ==
    call = "layout_network" =>
        \A c \in Fa2Calls :
            /\ c.iterations = 500
            /\ ~c.outboundAttractionDistribution
            /\ ~c.adjustSizes
            /\ ~c.multiThreaded

\* C15 (amended): every fa2 layout run has 500 iterations, attraction
\* distribution switched on, adjust-sizes and multi-threading switched off;
\* the layout runs exactly once when "fa2" is asked for.
C15_Fa2OptionsAsCoded ==
    call = "layout_network" =>
        /\ \A c \in Fa2Calls :
              /\ c.iterations = 500
              /\ c.outboundAttractionDistribution
              /\ ~c.adjustSizes
              /\ ~c.multiThreaded
        /\ (args.layout_name = "fa2") = (Fa2Calls # {})
        /\ Len(effects) <= 1

\* the fa2 layout has run on a graph with nodes and an edge
C15_Witness ==
    /\ call = "layout_network"
    /\ args.layout_name = "fa2"
    /\ Fa2Calls # {}
    /\ result.tag = "return"
    /\ EdgeSet(heap[args.network]) # {}

====
